---- MODULE Spec2Model ----
(***************************************************************************)
(* Model of src/pages/index.tsx: the refund-request evaluator.             *)
(*                                                                         *)
(* Home() maps evaluate over the records of data.json and renders one      *)
(* table row per result.  evaluate = parseCustomerInfo, then               *)
(* calculateRequestTiming and calculateRefundPeriod, then the verdict.     *)
(*                                                                         *)
(* Representation.                                                         *)
(*  - A date string is the sequence of its "/"-separated components, which *)
(*    is what String.split("/") returns; a time string "HH:MM" is the pair *)
(*    <<HH, MM>>, and "" is <<>>.                                          *)
(*  - A JS Date is [valid, time]: time is its time value in MINUTES (the   *)
(*    inputs have minute resolution); an Invalid Date has valid = FALSE    *)
(*    (its getTime() is NaN).                                              *)
(*  - A JS number is [nan, v].  requestTiming (hours, fractional) is held  *)
(*    as v minutes, i.e. hours * MinutesPerHour, so that it stays exact.   *)
(*  - Date strings are parsed as the Node/V8 runtime of the Next.js build  *)
(*    parses them, in a zone without daylight-saving shifts.               *)
(*  - A call that may throw returns [error, value]; error = "" is a normal *)
(*    return.                                                              *)
(***************************************************************************)
EXTENDS Integers, Sequences, FiniteSets, TLC

VARIABLES
    data,          \* the records of data.json (line 2), in order
    pc,            \* where Home is: "map" (line 87), "render" (lines 137-176),
                   \* "done" (returned) or "threw" (left by an exception)
    customerData,  \* the results collected by data.map(evaluate) (line 87)
    rows,          \* the <tr> rows built from customerData (lines 137-176)
    err            \* the message of the exception that left Home, "" if none

vars == <<data, pc, customerData, rows, err>>

-----------------------------------------------------------------------------
(* Bounds and input domains *)

MaxBatch == 2

MinutesPerHour == 60
MinutesPerDay == 24 * MinutesPerHour

\* A missing component: split(...)[k] is undefined and prints as "undefined".
Undefined == -1

Names == {"Ann"}
Locations == {"US", "Europe", "Asia"}
Sources == {"phone", "web app", "mail"}

\* "1/1/2020", "1/2/2020", "2/1/2020", and the malformed "2020".
SignupDates == {<<1, 1, 2020>>, <<1, 2, 2020>>, <<2, 1, 2020>>, <<2020>>}
InvestmentDates == {<<1, 2, 2020>>, <<2, 1, 2020>>}
InvestmentTimes == {<<0, 0>>, <<23, 30>>, <<25, 0>>}
RefundDates == {<<1, 2, 2020>>, <<2, 1, 2020>>, <<2020>>}
RefundTimes ==
    {<<0, 0>>, <<4, 0>>, <<4, 1>>, <<8, 0>>, <<8, 1>>, <<16, 0>>, <<16, 1>>, <<24, 0>>}

\* CustomerData (lines 5-14)
CustomerData ==
    [Name : Names, Location : Locations, SignupDate : SignupDates,
     Source : Sources, InvestmentDate : InvestmentDates,
     InvestmentTime : InvestmentTimes, RefundDate : RefundDates,
     RefundTime : RefundTimes]

\* The smaller record domain of the batch specification.
BatchData ==
    [Name : Names, Location : {"US", "Europe"},
     SignupDate : {<<1, 2, 2020>>, <<2, 1, 2020>>, <<2020>>},
     Source : {"phone", "mail"},
     InvestmentDate : {<<1, 2, 2020>>, <<2, 1, 2020>>},
     InvestmentTime : {<<0, 0>>},
     RefundDate : {<<1, 2, 2020>>, <<2, 1, 2020>>},
     RefundTime : {<<4, 1>>}]

RECURSIVE SeqsUpTo(_, _)
SeqsUpTo(S, n) ==
    IF n = 0 THEN {<<>>}
    ELSE LET shorter == SeqsUpTo(S, n - 1)
         IN  shorter \cup {Append(s, x) : s \in {t \in shorter : Len(t) = n - 1}, x \in S}

-----------------------------------------------------------------------------
(* JavaScript values *)

NaN == [nan |-> TRUE, v |-> 0]
Num(x) == [nan |-> FALSE, v |-> x]

\* a - b on numbers
JsSub(a, b) == IF a.nan \/ b.nan THEN NaN ELSE Num(a.v - b.v)

\* a < b and a <= b on numbers: false when either side is NaN
JsLt(a, b) == ~a.nan /\ ~b.nan /\ a.v < b.v

\* Variant of JsLeq: a comparison with NaN succeeds.
JsLeqNaNTrue(a, b) == a.nan \/ b.nan \/ a.v <= b.v

JsLeq(a, b) == ~a.nan /\ ~b.nan /\ a.v <= b.v

InvalidDate == [valid |-> FALSE, time |-> 0]

\* Date.prototype.getTime
getTime(date) == IF date.valid THEN Num(date.time) ELSE NaN

Return(x) == [error |-> "", value |-> x]
Throw(e) == [error |-> e, value |-> <<>>]

\* Days from 1970-01-01 to year y, month m, day 1 (proleptic Gregorian).
DaysFromCivil(y, m) ==
    LET yy == IF m <= 2 THEN y - 1 ELSE y
        era == yy \div 400
        yoe == yy - era * 400
        mp == IF m > 2 THEN m - 3 ELSE m + 9
        doy == (153 * mp + 2) \div 5
        doe == yoe * 365 + yoe \div 4 - yoe \div 100 + doy
    IN  era * 146097 + doe - 719468

\* <<year, month, day>> of a day number: the inverse of DaysFromCivil.
CivilFromDays(days) ==
    LET z == days + 719468
        era == z \div 146097
        doe == z - era * 146097
        yoe == (doe - doe \div 1460 + doe \div 36524 - doe \div 146096) \div 365
        doy == doe - (365 * yoe + yoe \div 4 - yoe \div 100)
        mp == (5 * doy + 2) \div 153
        d == doy - (153 * mp + 2) \div 5 + 1
        m == IF mp < 10 THEN mp + 3 ELSE mp - 9
        y == yoe + era * 400 + (IF m <= 2 THEN 1 ELSE 0)
    IN  <<y, m, d>>

\* split("/"): the k-th component (1-based here), undefined when missing
Component(parts, k) == IF k <= Len(parts) THEN parts[k] ELSE Undefined

\* new Date("<a>/<b>/<c>" [+ " " + "<h>:<m>"]): month/day/year, local time.
\* The month must be 1..12 and the day 1..31; a day past the end of the
\* month rolls over into the next one.  The time must be 0:00..23:59 or
\* exactly 24:00; an empty time is midnight.
NewDate(str) ==
    LET m == str.date[1]
        d == str.date[2]
        y == str.date[3]
        t == str.time
        dateOk == m \in 1..12 /\ d \in 1..31 /\ y # Undefined
        timeOk == \/ t = <<>>
                  \/ /\ Len(t) = 2
                     /\ \/ t[1] \in 0..23 /\ t[2] \in 0..59
                        \/ t[1] = 24 /\ t[2] = 0
        minutes == IF t = <<>> THEN 0 ELSE t[1] * MinutesPerHour + t[2]
    IN  IF dateOk /\ timeOk
        THEN [valid |-> TRUE,
              time |-> (DaysFromCivil(y, m) + d - 1) * MinutesPerDay + minutes]
        ELSE InvalidDate

\* new Date("01-02-2020"): January 2, 2020, local midnight
Cutoff == NewDate([date |-> <<1, 2, 2020>>, time |-> <<>>])

\* Variant of isBefore: not strict.
isBeforeOrEqual(date, dateToCompare) ==
    JsLeq(getTime(date), getTime(dateToCompare))

\* date-fns isBefore: date.getTime() < dateToCompare.getTime()
isBefore(date, dateToCompare) == JsLt(getTime(date), getTime(dateToCompare))

\* Truncation toward zero of x / n
Trunc(x, n) == IF x >= 0 THEN x \div n ELSE -((-x) \div n)

\* Variant of differenceInHours: rounds down instead of toward zero.
differenceInHoursFloor(dateLeft, dateRight) ==
    LET diff == JsSub(getTime(dateLeft), getTime(dateRight))
    IN  IF diff.nan THEN NaN ELSE Num(diff.v \div MinutesPerHour)

\* date-fns differenceInHours: the difference of the time values in hours,
\* truncated toward zero; NaN when a date is invalid
differenceInHours(dateLeft, dateRight) ==
    LET diff == JsSub(getTime(dateLeft), getTime(dateRight))
    IN  IF diff.nan THEN NaN ELSE Num(Trunc(diff.v, MinutesPerHour))

\* date-fns format(date, "dd/MM/yyyy - HH:mm"): throws RangeError on an
\* Invalid Date; the text is held as <<dd, MM, yyyy, HH, mm>>
format(date) ==
    IF ~date.valid THEN Throw("Invalid time value")
    ELSE LET days == date.time \div MinutesPerDay
             ofDay == date.time % MinutesPerDay
             ymd == CivilFromDays(days)
         IN  Return(<<ymd[3], ymd[2], ymd[1],
                      ofDay \div MinutesPerHour, ofDay % MinutesPerHour>>)

-----------------------------------------------------------------------------
(* The program's functions *)

\* Variant of Reformat: the components are never swapped.
ReformatNoSwap(parts, isUS) ==
    <<Component(parts, 1), Component(parts, 2), Component(parts, 3)>>

\* The template `${p[0]}/${p[1]}/${p[2]}` or `${p[1]}/${p[0]}/${p[2]}`
Reformat(parts, isUS) ==
    IF isUS
    THEN <<Component(parts, 1), Component(parts, 2), Component(parts, 3)>>
    ELSE <<Component(parts, 2), Component(parts, 1), Component(parts, 3)>>

parseCustomerInfo(customer) ==
    LET signupDate == customer.SignupDate
        investmentDate == customer.InvestmentDate
        refundDate == customer.RefundDate
        isUS == customer.Location = "US"
        signupDateFormat == Reformat(signupDate, isUS)
        investmentDateFormat == Reformat(investmentDate, isUS)
        refundDateFormat == Reformat(refundDate, isUS)
    IN  [Name |-> customer.Name,
         Location |-> customer.Location,
         Source |-> customer.Source,
         InvestmentTime |-> customer.InvestmentTime,
         RefundTime |-> customer.RefundTime,
         SignupDate |-> NewDate([date |-> signupDateFormat, time |-> <<>>]),
         InvestmentDate |->
             NewDate([date |-> investmentDateFormat,
                      time |-> customer.InvestmentTime]),
         RefundDate |->
             NewDate([date |-> refundDateFormat, time |-> customer.RefundTime]),
         isRequestValid |-> FALSE]

\* Variant of calculateRequestTiming: the absolute difference.
calculateRequestTimingAbs(customer) ==
    LET diff == JsSub(getTime(customer.RefundDate), getTime(customer.InvestmentDate))
    IN  IF diff.nan \/ diff.v >= 0 THEN diff ELSE Num(-diff.v)

\* In minutes: the code's hours times MinutesPerHour.
calculateRequestTiming(customer) ==
    LET investmentTimestamp == getTime(customer.InvestmentDate)
        refundTimestamp == getTime(customer.RefundDate)
        timeDiffInHours == JsSub(refundTimestamp, investmentTimestamp)
    IN  timeDiffInHours

\* Variant of calculateRefundPeriod: the phone tiers exchanged.
calculateRefundPeriodSwapped(customer) ==
    LET isOldTOS == isBefore(customer.SignupDate, Cutoff)
    IN  CASE customer.Source = "phone" -> Return(IF isOldTOS THEN 8 ELSE 4)
          [] customer.Source = "web app" -> Return(IF isOldTOS THEN 8 ELSE 16)
          [] OTHER -> Throw("Invalid Source")

\* Variant of calculateRefundPeriod: a signup at the cutoff is old TOS.
calculateRefundPeriodInclusive(customer) ==
    LET isOldTOS == isBeforeOrEqual(customer.SignupDate, Cutoff)
    IN  CASE customer.Source = "phone" -> Return(IF isOldTOS THEN 4 ELSE 8)
          [] customer.Source = "web app" -> Return(IF isOldTOS THEN 8 ELSE 16)
          [] OTHER -> Throw("Invalid Source")

calculateRefundPeriod(customer) ==
    LET isOldTOS == isBefore(customer.SignupDate, Cutoff)
    IN  CASE customer.Source = "phone" -> Return(IF isOldTOS THEN 4 ELSE 8)
          [] customer.Source = "web app" -> Return(IF isOldTOS THEN 8 ELSE 16)
          [] OTHER -> Throw("Invalid Source")

\* Variants of WithinPeriod: strict; true for NaN.
WithinPeriodStrict(requestTiming, refundPeriod) ==
    JsLt(requestTiming, Num(refundPeriod * MinutesPerHour))

WithinPeriodNaNTrue(requestTiming, refundPeriod) ==
    JsLeqNaNTrue(requestTiming, Num(refundPeriod * MinutesPerHour))

\* requestTiming <= refundPeriod, with requestTiming in minutes
WithinPeriod(requestTiming, refundPeriod) ==
    JsLeq(requestTiming, Num(refundPeriod * MinutesPerHour))

evaluate(d) ==
    LET customer == parseCustomerInfo(d)
        requestTiming == calculateRequestTiming(customer)
        refundPeriod == calculateRefundPeriod(customer)
    IN  IF refundPeriod.error # "" THEN Throw(refundPeriod.error)
        ELSE Return([Name |-> customer.Name,
                     Location |-> customer.Location,
                     Source |-> customer.Source,
                     InvestmentTime |-> customer.InvestmentTime,
                     RefundTime |-> customer.RefundTime,
                     SignupDate |-> customer.SignupDate,
                     InvestmentDate |-> customer.InvestmentDate,
                     RefundDate |-> customer.RefundDate,
                     requestTiming |-> requestTiming,
                     refundPeriod |-> refundPeriod.value,
                     isRequestValid |->
                         WithinPeriod(requestTiming, refundPeriod.value)])

\* One <tr> of the table (lines 138-175)
Row(customer) ==
    LET signup == format(customer.SignupDate)
        investment == format(customer.InvestmentDate)
        refund == format(customer.RefundDate)
    IN  IF signup.error # "" THEN Throw(signup.error)
        ELSE IF investment.error # "" THEN Throw(investment.error)
        ELSE IF refund.error # "" THEN Throw(refund.error)
        ELSE Return([className |-> IF customer.isRequestValid
                                   THEN "bg-green-200" ELSE "bg-red-200",
                     Name |-> customer.Name,
                     Location |-> customer.Location,
                     SignupDate |-> signup.value,
                     Source |-> customer.Source,
                     InvestmentDate |-> investment.value,
                     RefundDate |-> refund.value,
                     RefundHours |->
                         differenceInHours(customer.RefundDate,
                                           customer.InvestmentDate),
                     RefundPeriod |-> customer.refundPeriod,
                     TOS |-> IF isBefore(customer.SignupDate, Cutoff)
                             THEN "Old" ELSE "New",
                     Status |-> IF customer.isRequestValid
                                THEN "Valid" ELSE "Invalid"])

-----------------------------------------------------------------------------
(* Home(): data.map(evaluate), then one row per result *)

Start(batch) ==
    /\ data = batch
    /\ pc = "map"
    /\ customerData = <<>>
    /\ rows = <<>>
    /\ err = ""

\* One record of data.json
Init == \E d \in CustomerData : Start(<<d>>)

\* A batch of up to MaxBatch records
InitBatch == \E batch \in SeqsUpTo(BatchData, MaxBatch) : Start(batch)

\* map calls evaluate on the next record and keeps its result
MapEvaluate ==
    /\ pc = "map"
    /\ Len(customerData) < Len(data)
    /\ LET r == evaluate(data[Len(customerData) + 1])
       IN  /\ r.error = ""
           /\ customerData' = Append(customerData, r.value)
    /\ UNCHANGED <<data, pc, rows, err>>

\* evaluate throws: the exception leaves map and Home; nothing is returned
MapThrow ==
    /\ pc = "map"
    /\ Len(customerData) < Len(data)
    /\ LET r == evaluate(data[Len(customerData) + 1])
       IN  /\ r.error # ""
           /\ err' = r.error
    /\ customerData' = <<>>
    /\ pc' = "threw"
    /\ UNCHANGED <<data, rows>>

MapDone ==
    /\ pc = "map"
    /\ Len(customerData) = Len(data)
    /\ pc' = "render"
    /\ UNCHANGED <<data, customerData, rows, err>>

RenderRow ==
    /\ pc = "render"
    /\ Len(rows) < Len(customerData)
    /\ LET r == Row(customerData[Len(rows) + 1])
       IN  /\ r.error = ""
           /\ rows' = Append(rows, r.value)
    /\ UNCHANGED <<data, pc, customerData, err>>

\* format throws on an Invalid Date: the render of Home fails
RenderThrow ==
    /\ pc = "render"
    /\ Len(rows) < Len(customerData)
    /\ LET r == Row(customerData[Len(rows) + 1])
       IN  /\ r.error # ""
           /\ err' = r.error
    /\ rows' = <<>>
    /\ pc' = "threw"
    /\ UNCHANGED <<data, customerData>>

RenderDone ==
    /\ pc = "render"
    /\ Len(rows) = Len(customerData)
    /\ pc' = "done"
    /\ UNCHANGED <<data, customerData, rows, err>>

Next ==
    \/ MapEvaluate
    \/ MapThrow
    \/ MapDone
    \/ RenderRow
    \/ RenderThrow
    \/ RenderDone

Spec == Init /\ [][Next]_vars

SpecBatch == InitBatch /\ [][Next]_vars

-----------------------------------------------------------------------------
(* The policy as the specification states it, for the properties below *)

Supported(source) == source \in {"phone", "web app"}

LowerTier(source) == IF source = "phone" THEN 4 ELSE 8

HigherTier(source) == IF source = "phone" THEN 8 ELSE 16

\* January 2, 2020, 00:00, in minutes
TOSCutoff == (DaysFromCivil(2020, 1) + 1) * MinutesPerDay

Results == 1..Len(customerData)

\* Both timestamps of the result are valid
Timed(r) == r.InvestmentDate.valid /\ r.RefundDate.valid

\* Minutes from the investment to the refund
Elapsed(r) == r.RefundDate.time - r.InvestmentDate.time

-----------------------------------------------------------------------------
\* C1: every result has isRequestValid true exactly when the elapsed time is
\* at most the refund period; elapsed time equal to the period is eligible
\* and one minute more is not.
C1_VerdictIffWithinWindow ==
    \A i \in Results :
        LET r == customerData[i]
            window == r.refundPeriod * MinutesPerHour
        IN  /\ r.isRequestValid <=> (Timed(r) /\ Elapsed(r) <= window)
            /\ (Timed(r) /\ Elapsed(r) = window) => r.isRequestValid
            /\ (Timed(r) /\ Elapsed(r) = window + 1) => ~r.isRequestValid

C1_Witness ==
    \E i \in Results :
        LET r == customerData[i]
        IN  /\ Timed(r)
            /\ Elapsed(r) = r.refundPeriod * MinutesPerHour
            /\ r.isRequestValid

\* C2: for a supported Source the refund period is the entry of the policy
\* table for (Source, signup strictly before the cutoff), and it is never a
\* value outside {4, 8, 16}.
C2_PolicyTable ==
    \A i \in Results :
        LET r == customerData[i]
        IN  Supported(r.Source) =>
                /\ r.refundPeriod \in {4, 8, 16}
                /\ r.SignupDate.valid =>
                       r.refundPeriod =
                           IF r.SignupDate.time < TOSCutoff
                           THEN (IF r.Source = "phone" THEN 4 ELSE 8)
                           ELSE (IF r.Source = "phone" THEN 8 ELSE 16)

C2_Witness ==
    \E i \in Results :
        LET r == customerData[i]
        IN  /\ r.Source = "phone"
            /\ r.SignupDate.valid
            /\ r.SignupDate.time < TOSCutoff
            /\ r.refundPeriod = 4

\* C3: after the batch evaluation, every record with a supported Source has
\* its result, also when another record of the batch has an unsupported one.
C3_BatchContinues ==
    pc # "map" =>
        \A i \in 1..Len(data) :
            Supported(data[i].Source) =>
                \E j \in Results : customerData[j] = evaluate(data[i]).value

\* The two records write the same dates, one month-first and one day-first,
\* with the same times of day.
SwappedDate(us, eu) ==
    Len(us) = 3 /\ Len(eu) = 3 /\ eu = <<us[2], us[1], us[3]>>

SameInstants(us, eu) ==
    /\ SwappedDate(us.SignupDate, eu.SignupDate)
    /\ SwappedDate(us.InvestmentDate, eu.InvestmentDate)
    /\ SwappedDate(us.RefundDate, eu.RefundDate)
    /\ us.InvestmentTime = eu.InvestmentTime
    /\ us.RefundTime = eu.RefundTime

\* C4: a US record and a Europe record that write the same dates and times,
\* each in its convention, get identical timestamps, and with the same Source
\* the same elapsed time, refund period and verdict.
C4_CrossLocale ==
    \A i, j \in Results :
        (/\ data[i].Location = "US"
         /\ data[j].Location = "Europe"
         /\ SameInstants(data[i], data[j]))
        => LET u == customerData[i]
               e == customerData[j]
           IN  /\ u.SignupDate = e.SignupDate
               /\ u.InvestmentDate = e.InvestmentDate
               /\ u.RefundDate = e.RefundDate
               /\ u.Source = e.Source =>
                      /\ u.requestTiming = e.requestTiming
                      /\ u.refundPeriod = e.refundPeriod
                      /\ u.isRequestValid = e.isRequestValid

C4_Witness ==
    \E i, j \in Results :
        /\ data[i].Location = "US"
        /\ data[j].Location = "Europe"
        /\ SameInstants(data[i], data[j])
        /\ data[i].SignupDate # data[j].SignupDate
        /\ data[i].InvestmentDate # data[j].InvestmentDate
        /\ data[i].RefundDate # data[j].RefundDate
        /\ customerData[i].SignupDate.valid
        /\ customerData[i].InvestmentDate.valid
        /\ customerData[i].RefundDate.valid
        /\ customerData[i].InvestmentDate = customerData[j].InvestmentDate

\* C5: no record with a Location outside {US, Europe} gets timestamps and a
\* verdict: its evaluation fails.
C5_UnsupportedLocationFails ==
    \A i \in Results : customerData[i].Location \in {"US", "Europe"}

\* C6: a signup exactly at the cutoff gets the higher tier of its Source, an
\* earlier signup the lower tier.
C6_CutoffIsNewTier ==
    \A i \in Results :
        LET r == customerData[i]
        IN  r.SignupDate.valid =>
                /\ r.SignupDate.time = TOSCutoff =>
                       r.refundPeriod = HigherTier(r.Source)
                /\ r.SignupDate.time < TOSCutoff =>
                       r.refundPeriod = LowerTier(r.Source)

C6_Witness ==
    \E i \in Results :
        LET r == customerData[i]
        IN  /\ r.SignupDate.valid
            /\ r.SignupDate.time = TOSCutoff
            /\ r.refundPeriod = HigherTier(r.Source)

\* C7: the batch evaluation yields exactly one result per input record, the
\* i-th result being the evaluation of the i-th record.
C7_OneResultPerRecordInOrder ==
    pc # "map" =>
        /\ Len(customerData) = Len(data)
        /\ \A i \in 1..Len(data) : customerData[i] = evaluate(data[i]).value

\* C8: a refund earlier than the investment has a negative elapsed time, the
\* exact difference, and is eligible.
C8_NegativeElapsedEligible ==
    \A i \in Results :
        LET r == customerData[i]
        IN  (Timed(r) /\ r.RefundDate.time < r.InvestmentDate.time) =>
                /\ ~r.requestTiming.nan
                /\ r.requestTiming.v = Elapsed(r)
                /\ r.requestTiming.v < 0
                /\ r.isRequestValid

C8_Witness ==
    \E i \in Results :
        LET r == customerData[i]
        IN  /\ Timed(r)
            /\ r.Source = "phone"
            /\ r.SignupDate.valid
            /\ r.SignupDate.time < TOSCutoff
            /\ Elapsed(r) < -(16 * MinutesPerHour)
            /\ r.isRequestValid

\* The date or time text is not of the expected form.
MalformedDate(parts) == Len(parts) # 3

MalformedTime(t) == ~(Len(t) = 2 /\ t[1] \in 0..23 /\ t[2] \in 0..59)

\* C9: evaluate fails only for an unsupported Source, never for a malformed
\* date or time; an invalid investment or refund timestamp gives a NaN
\* elapsed time and the verdict false; an invalid signup timestamp gives the
\* higher tier.
C9_MalformedPropagates ==
    /\ (pc # "map" /\ \A i \in 1..Len(data) : Supported(data[i].Source))
           => Len(customerData) = Len(data)
    /\ \A i \in Results :
           LET r == customerData[i]
           IN  /\ (MalformedDate(data[i].SignupDate) => ~r.SignupDate.valid)
               /\ (MalformedDate(data[i].RefundDate) => ~r.RefundDate.valid)
               /\ ~Timed(r) => (r.requestTiming.nan /\ ~r.isRequestValid)
               /\ ~r.SignupDate.valid => r.refundPeriod = HigherTier(r.Source)

C9_Witness ==
    \E i \in Results :
        LET r == customerData[i]
        IN  /\ MalformedDate(data[i].SignupDate)
            /\ MalformedTime(data[i].InvestmentTime)
            /\ ~r.SignupDate.valid
            /\ ~r.InvestmentDate.valid
            /\ r.RefundDate.valid
            /\ ~r.isRequestValid

\* C10: every row shows "Valid" exactly when its displayed Refund Hours are
\* at most its displayed Refund Period, and "Old" exactly when the period is
\* the lower tier of its Source.
C10_RowConsistentWithDisplayedHours ==
    \A j \in 1..Len(rows) :
        LET row == rows[j]
        IN  /\ row.Status = "Valid" <=>
                   (~row.RefundHours.nan /\ row.RefundHours.v <= row.RefundPeriod)
            /\ row.TOS = "Old" <=> row.RefundPeriod = LowerTier(row.Source)

\* C10 as amended: the verdict of a row follows the exact elapsed time; the
\* displayed hours are that time truncated toward zero, so a "Valid" row
\* shows hours at most the period and an "Invalid" row hours at least the
\* period (equal when the excess is under an hour); the TOS label is "Old"
\* exactly when the period is the lower tier.
C10_RowConsistentWithExactHours ==
    \A j \in 1..Len(rows) :
        LET row == rows[j]
            r == customerData[j]
            h == row.RefundHours.v * MinutesPerHour
        IN  /\ ~row.RefundHours.nan
            /\ row.Status \in {"Valid", "Invalid"}
            /\ row.Status = "Valid" <=>
                   Elapsed(r) <= row.RefundPeriod * MinutesPerHour
            /\ Elapsed(r) >= 0 => (h <= Elapsed(r) /\ Elapsed(r) < h + MinutesPerHour)
            /\ Elapsed(r) <= 0 => (h - MinutesPerHour < Elapsed(r) /\ Elapsed(r) <= h)
            /\ row.Status = "Valid" => row.RefundHours.v <= row.RefundPeriod
            /\ row.Status = "Invalid" => row.RefundHours.v >= row.RefundPeriod
            /\ row.TOS = "Old" <=> row.RefundPeriod = LowerTier(row.Source)

C10_Witness ==
    \E j \in 1..Len(rows) :
        /\ rows[j].Status = "Invalid"
        /\ rows[j].RefundHours.v = rows[j].RefundPeriod
        /\ Elapsed(customerData[j]) = rows[j].RefundPeriod * MinutesPerHour + 1

====
